---- MODULE Spec2Model ----
(***************************************************************************)
(* A model of data_extractor/extractor.py: the MSISDNRequestExtractor     *)
(* class (URL validation, the retrying HTTP fetch, the nested-key         *)
(* extractor) and the sequential batch run process_all_msisdns.           *)
(*                                                                         *)
(* Strings are sequences of one-character strings, so that rstrip, split, *)
(* startswith, endswith, lower, strip and isdigit are computed on the     *)
(* characters as Python computes them.  In key paths and JSON keys a      *)
(* multi-letter atom such as "accounts" abbreviates a run of letters that  *)
(* holds no '.'.                                                           *)
(***************************************************************************)
EXTENDS Integers, Sequences, FiniteSets, TLC

VARIABLES
    \* MSISDNRequestExtractor.__init__ / _validate_url
    url,          \* the base_url argument of the constructor
    cpc,          \* "new" | "constructed" | "raised"
    base_url,     \* self.base_url
    headers,      \* self.headers (the set of header names stored)
    \* make_request
    fpc,          \* "idle" | "sending" | "returned" | "raised"
    cur,          \* the msisdn argument of the call in progress
    total,        \* urllib3.Retry.total of the call in progress
    attempts,     \* HTTP requests sent by the call in progress
    onlyForce,    \* every answer of this call was a status of status_forcelist
    retriedOther, \* a response with a status outside status_forcelist was re-attempted
    retriedPlain, \* ... and it was not a 413/429 carrying Retry-After either
    last,         \* the last answer of the server in this call
    ret,          \* make_request's return value
    netCalls,     \* HTTP requests sent since construction
    \* extract_data
    json_data, keys, msisdn, row, epc,
    \* process_all_msisdns
    pc,           \* "start" | "loop" | "fetching" | "write" | "done" | "raised"
    reader_in,    \* the Reader's input: file path, column name, the table
    msisdns,      \* the identifiers the Reader returned
    idx,          \* the loop's position in msisdns (rows appended so far)
    results,      \* the result collection
    failed,       \* positions whose fetch returned None
    output        \* the file written, or NoFile

urlVars == <<url, cpc, base_url, headers>>
fetchVars == <<fpc, cur, total, attempts, onlyForce, retriedOther, retriedPlain, last, ret, netCalls>>
extractVars == <<json_data, keys, msisdn, row, epc>>
runVars == <<pc, reader_in, msisdns, idx, results, failed, output>>
vars == <<urlVars, fetchVars, extractVars, runVars>>

(***************************************************************************)
(* Bounds of the model.                                                    *)
(***************************************************************************)
MaxTail == 2      \* characters after the host of a constructor URL
MaxIdLen == 2     \* characters of an identifier handed to make_request
MaxKeys == 2      \* key paths of one extract_data call
MaxRows == 2      \* rows of the input table

(***************************************************************************)
(* Python str methods on character sequences.                              *)
(***************************************************************************)
Min(a, b) == IF a < b THEN a ELSE b

SeqsUpTo(S, n) == UNION {[1..k -> S] : k \in 0..n}

\* s[i:j] of Python with 1-based inclusive bounds
Slice(s, i, j) == IF j < i THEN <<>> ELSE SubSeq(s, i, Min(j, Len(s)))

startswith(s, p) == Len(s) >= Len(p) /\ SubSeq(s, 1, Len(p)) = p

endswith(s, p) == Len(s) >= Len(p) /\ SubSeq(s, Len(s) - Len(p) + 1, Len(s)) = p

\* s.find(c, start): the first position >= start holding c, 0 when there is none
find(s, c, start) ==
    IF \E i \in start..Len(s) : s[i] = c
    THEN CHOOSE i \in start..Len(s) : s[i] = c /\ \A j \in start..(i - 1) : s[j] # c
    ELSE 0

RECURSIVE rstrip(_, _)
rstrip(s, chars) ==
    IF s # <<>> /\ s[Len(s)] \in chars THEN rstrip(SubSeq(s, 1, Len(s) - 1), chars) ELSE s

RECURSIVE lstrip(_, _)
lstrip(s, chars) ==
    IF s # <<>> /\ s[1] \in chars THEN lstrip(Tail(s), chars) ELSE s

Whitespace == {" "}

strip(s) == lstrip(rstrip(s, Whitespace), Whitespace)

UpperOf == [c \in {"h", "t", "p", "c", "s", "v", "x", "l"} |->
              CASE c = "h" -> "H" [] c = "t" -> "T" [] c = "p" -> "P" [] c = "c" -> "C"
                [] c = "s" -> "S" [] c = "v" -> "V" [] c = "x" -> "X" [] c = "l" -> "L"]

LowerLetters == {"a", "b", "c", "f", "h", "l", "p", "s", "t", "v", "x"}
UpperLetters == {UpperOf[c] : c \in DOMAIN UpperOf}
AsciiDigits == {"0", "1", "2", "9"}
\* U+0663 ARABIC-INDIC DIGIT THREE: str.isdigit() is true of it, Latin-1 cannot encode it
ArabicDigits == {"U+0663"}

lowerChar(c) == IF c \in UpperLetters THEN CHOOSE d \in DOMAIN UpperOf : UpperOf[d] = c ELSE c

lower(s) == [i \in 1..Len(s) |-> lowerChar(s[i])]

isalpha(c) == c \in LowerLetters \cup UpperLetters

\* str.isdigit(): non-empty and every character is a (Unicode) digit
isdigit(s) == s # <<>> /\ \A i \in 1..Len(s) : s[i] \in AsciiDigits \cup ArabicDigits

(***************************************************************************)
(* urllib.parse.urlparse, as far as scheme and netloc go.                  *)
(***************************************************************************)
scheme_chars == LowerLetters \cup UpperLetters \cup AsciiDigits \cup {"+", "-", "."}

\* urlsplit: the scheme is what precedes the first ':' when it starts with a
\* letter and holds scheme characters only; it is lower-cased
urlparse(u) ==
    LET i == find(u, ":", 1)
        hasScheme == i > 1 /\ isalpha(u[1]) /\ \A j \in 1..(i - 1) : u[j] \in scheme_chars
        scheme == IF hasScheme THEN lower(SubSeq(u, 1, i - 1)) ELSE <<>>
        rest == IF hasScheme THEN Slice(u, i + 1, Len(u)) ELSE u
        \* _splitnetloc(rest, 2): up to the first of '/', '?', '#'
        delims == {d \in 3..Len(rest) : rest[d] \in {"/", "?", "#"}}
        delim == IF delims = {} THEN Len(rest) + 1
                 ELSE CHOOSE d \in delims : \A e \in delims : d <= e
        netloc == IF Slice(rest, 1, 2) = <<"/", "/">> THEN Slice(rest, 3, delim - 1) ELSE <<>>
    IN [scheme |-> scheme, netloc |-> netloc]

Raise == [raised |-> TRUE]

HTTP == <<"h", "t", "t", "p", ":", "/", "/">>
HTTPS == <<"h", "t", "t", "p", "s", ":", "/", "/">>

\* a _validate_url that forgets url.rstrip('&?')
validate_url_no_rstrip(u) ==
    LET parsed == urlparse(u)
    IN IF parsed.scheme = <<>> \/ parsed.netloc = <<>> THEN Raise
       ELSE IF ~(startswith(u, HTTP) \/ startswith(u, HTTPS)) THEN Raise
       ELSE [raised |-> FALSE, value |-> u]

_validate_url(u0) ==
    LET u == rstrip(u0, {"&", "?"})
        parsed == urlparse(u)
    IN IF parsed.scheme = <<>> \/ parsed.netloc = <<>> THEN Raise
       ELSE IF ~(startswith(u, HTTP) \/ startswith(u, HTTPS)) THEN Raise
       ELSE [raised |-> FALSE, value |-> u]

DefaultHeaders == {"Content-Type", "Accept", "User-Agent", "Accept-Encoding", "Connection"}

NoUrl == <<>>

\* the constructor arguments the model draws
UrlPrefixes ==
    { <<>>, HTTP, HTTPS,
      <<"f", "t", "p", ":", "/", "/">>,
      <<"H", "T", "T", "P", ":", "/", "/">>,
      <<"h", "t", "t", "p", ":">>,
      <<"h", "t", "t", "p", ":", "/">>,
      <<"/", "/">>,
      <<":", "/", "/">>,
      <<"1", "p", ":", "/", "/">> }
UrlHosts == { <<>>, <<"a">>, <<"a", ".", "b">> }
UrlTails == SeqsUpTo({"/", "?", "&", "x"}, MaxTail)
UrlInputs == {p \o h \o t : p \in UrlPrefixes, h \in UrlHosts, t \in UrlTails}

\* MSISDNRequestExtractor(base_url): __init__ with no extra headers
Construct ==
    /\ cpc = "new"
    /\ LET v == _validate_url(url)
       IN IF v.raised
          THEN /\ cpc' = "raised"
               /\ UNCHANGED <<base_url, headers>>
          ELSE /\ cpc' = "constructed"
               /\ base_url' = v.value
               /\ headers' = DefaultHeaders
    /\ UNCHANGED <<url, fetchVars, extractVars, runVars>>

(***************************************************************************)
(* JSON values, tagged by type.  None is Python's None: a JSON null and   *)
(* the "absent" response alike.                                            *)
(***************************************************************************)
None == [t |-> "null"]
Str(s) == [t |-> "str", v |-> s]
Num(n) == [t |-> "num", v |-> n]
Arr(s) == [t |-> "arr", v |-> s]
Obj(f) == [t |-> "obj", v |-> f]
Obj1(k, x) == Obj([j \in {k} |-> x])
EmptyObj == Obj(<<>>)

(***************************************************************************)
(* make_request: one GET through the session's retrying adapter.           *)
(***************************************************************************)
\* a Retry that allows one retry more
RetryTotalPlusOne == 3 + 1

\* urllib3.Retry(total=3, ...): the retries allowed after the first attempt
RetryTotal == 3

status_forcelist == {500, 502, 503, 504}

\* urllib3.Retry.RETRY_AFTER_STATUS_CODES, honoured as respect_retry_after_header
\* defaults to True
RETRY_AFTER_STATUS_CODES == {413, 429, 503}

Malformed == [t |-> "malformed"]

\* the bodies a server sends with a status below 400
Doc_accounts ==
    Obj1(<<"accounts">>, Arr(<<Obj1(<<"accountInternalId">>, Str(<<"1", "2">>))>>))
Doc_msisdn == Obj1(<<"msisdn">>, Str(<<"9">>))
ResponseBodies == {Malformed, Doc_accounts, Doc_msisdn}

NoAnswer == [kind |-> "none"]
TransportFailures == {[kind |-> k] : k \in {"ConnectionError", "Timeout", "SSLError"}}
ErrorResponses ==
    {[kind |-> "resp", status |-> s, retry_after |-> FALSE, body |-> Malformed] :
        s \in {404, 429, 500, 502, 503, 504}}
    \cup {[kind |-> "resp", status |-> s, retry_after |-> TRUE, body |-> Malformed] :
        s \in {429, 503}}
\* 300 stands for a 3xx answer that carries no Location header (requests follows the others)
PassedResponses ==
    {[kind |-> "resp", status |-> s, retry_after |-> FALSE, body |-> b] :
        s \in {200, 300}, b \in ResponseBodies}
Answers == TransportFailures \cup ErrorResponses \cup PassedResponses

\* the guard of make_request's first statement, without the isdigit test
rejects_empty_only(m) == m = <<>>

\* not msisdn or not msisdn.isdigit()
rejects(m) == m = <<>> \/ ~isdigit(m)

\* http.client encodes header values as Latin-1: the Msisdn header of an identifier
\* with a digit outside Latin-1 raises UnicodeEncodeError, a ValueError that neither
\* urllib3 nor requests nor make_request catches
header_encodes(m) == \A i \in 1..Len(m) : m[i] \notin ArabicDigits

\* urllib3.Retry.is_retry for a GET
is_retry(status, has_retry_after, tot) ==
    \/ status \in status_forcelist
    \/ tot # 0 /\ has_retry_after /\ status \in RETRY_AFTER_STATUS_CODES

\* Response.raise_for_status raises HTTPError
raise_for_status(status) == 400 <= status /\ status < 600

\* the call's entry: the identifier check, then the request is built
MakeRequestCall(m) ==
    /\ fpc = "idle"
    /\ cur' = m
    /\ attempts' = 0
    /\ onlyForce' = TRUE
    /\ retriedOther' = FALSE
    /\ retriedPlain' = FALSE
    /\ last' = NoAnswer
    /\ total' = RetryTotal
    /\ ret' = None
    /\ fpc' = IF rejects(m) THEN "returned"
              ELSE IF ~header_encodes(m) THEN "raised"
              ELSE "sending"
    /\ UNCHANGED netCalls

\* one HTTP attempt of session.get and what the adapter does with the answer a
MakeRequestAttempt(a) ==
    /\ fpc = "sending"
    /\ attempts' = attempts + 1
    /\ netCalls' = netCalls + 1
    /\ last' = a
    /\ onlyForce' = (onlyForce /\ a.kind = "resp" /\ a.status \in status_forcelist)
    /\ retriedOther' =
          (retriedOther \/ (last.kind = "resp" /\ last.status \notin status_forcelist))
    /\ retriedPlain' =
          (retriedPlain \/ (/\ last.kind = "resp"
                            /\ last.status \notin status_forcelist
                            /\ ~(last.retry_after /\ last.status \in RETRY_AFTER_STATUS_CODES)))
    /\ cur' = cur
    /\ LET retry == a.kind # "resp" \/ is_retry(a.status, a.retry_after, total)
           \* Retry.increment: total - 1, and MaxRetryError once it falls below 0
           exhausted == total - 1 < 0
       IN IF retry /\ ~exhausted
          THEN /\ total' = total - 1
               /\ fpc' = "sending"
               /\ ret' = None
          ELSE /\ total' = total
               /\ fpc' = "returned"
               /\ ret' = IF retry THEN None     \* RetryError, ConnectionError, Timeout
                         ELSE IF raise_for_status(a.status) THEN None   \* HTTPError
                         ELSE IF a.body = Malformed THEN None           \* JSONDecodeError
                         ELSE a.body

Ids == SeqsUpTo({"1", "2", "a", " ", "U+0663"}, MaxIdLen)

ConstructedUrl == HTTP \o <<"a">>

IdleUrl == url = ConstructedUrl /\ cpc = "constructed" /\ base_url = ConstructedUrl
              /\ headers = DefaultHeaders
IdleFetch == /\ fpc = "idle" /\ cur = <<>> /\ total = RetryTotal /\ attempts = 0
             /\ onlyForce = TRUE /\ retriedOther = FALSE /\ retriedPlain = FALSE
             /\ last = NoAnswer /\ ret = None /\ netCalls = 0
IdleExtract == json_data = None /\ keys = <<>> /\ msisdn = <<>> /\ row = <<>> /\ epc = "idle"
NoFile == [file |-> <<>>, rows |-> <<>>, status |-> "none"]
NoInput == [path |-> <<>>]
IdleRun == /\ pc = "idle" /\ reader_in = NoInput /\ msisdns = <<>> /\ idx = 0
           /\ results = <<>> /\ failed = {} /\ output = NoFile

\* ---- construction alone
InitUrl == /\ url \in UrlInputs /\ cpc = "new" /\ base_url = NoUrl /\ headers = {}
           /\ IdleFetch /\ IdleExtract /\ IdleRun
NextUrl == Construct
SpecUrl == InitUrl /\ [][NextUrl]_vars

\* ---- one make_request call on a constructed extractor
FetchCall ==
    /\ pc = "idle"
    /\ \E m \in Ids : MakeRequestCall(m)
    /\ UNCHANGED <<urlVars, extractVars, runVars>>

FetchAttempt ==
    /\ pc = "idle"
    /\ \E a \in Answers : MakeRequestAttempt(a)
    /\ UNCHANGED <<urlVars, extractVars, runVars>>

InitFetch == IdleUrl /\ IdleFetch /\ IdleExtract /\ IdleRun
NextFetch == FetchCall \/ FetchAttempt
SpecFetch == InitFetch /\ [][NextFetch]_vars

(***************************************************************************)
(* extract_data and its helper get_nested_value.                           *)
(***************************************************************************)
\* key_path.split('.')
RECURSIVE split(_)
split(s) ==
    LET i == find(s, ".", 1)
    IN IF i = 0 THEN <<s>> ELSE <<SubSeq(s, 1, i - 1)>> \o split(SubSeq(s, i + 1, Len(s)))

\* Python's truth value of a JSON value: None, {}, [], "", 0 and False are false
Truthy(x) ==
    CASE x.t = "null" -> FALSE
      [] x.t = "obj" -> DOMAIN x.v # {}
      [] x.t = "arr" -> x.v # <<>>
      [] x.t = "str" -> x.v # <<>>
      [] x.t = "num" -> x.v # 0
      [] OTHER -> TRUE

\* dict.get(part): the value, None for a missing key
dict_get(d, part) == IF part \in DOMAIN d.v THEN d.v[part] ELSE None

accountInternalId == <<"accountInternalId">>

\* a loop body without the accountInternalId case: every array ends the walk
LoopBody_no_special_case(current, part) ==
    IF current.t = "arr" THEN [kind |-> "return", value |-> None]
    ELSE IF current.t = "obj" THEN [kind |-> "next", value |-> dict_get(current, part)]
    ELSE [kind |-> "return", value |-> None]

\* a loop body whose last branch keeps the scalar instead of returning None
LoopBody_scalar_kept(current, part) ==
    IF current.t = "arr"
    THEN IF part = accountInternalId
         THEN IF current.v = <<>> THEN [kind |-> "except"]
              ELSE IF current.v[1].t # "obj" THEN [kind |-> "except"]
              ELSE [kind |-> "next", value |-> dict_get(current.v[1], part)]
         ELSE [kind |-> "return", value |-> None]
    ELSE IF current.t = "obj" THEN [kind |-> "next", value |-> dict_get(current, part)]
    ELSE [kind |-> "next", value |-> current]

\* one pass of "for part in parts": the next current, a return, or an exception
\* (IndexError of [][0]; AttributeError of .get on an element that is no dict)
LoopBody(current, part) ==
    IF current.t = "arr"
    THEN IF part = accountInternalId
         THEN IF current.v = <<>> THEN [kind |-> "except"]
              ELSE IF current.v[1].t # "obj" THEN [kind |-> "except"]
              ELSE [kind |-> "next", value |-> dict_get(current.v[1], part)]
         ELSE [kind |-> "return", value |-> None]
    ELSE IF current.t = "obj" THEN [kind |-> "next", value |-> dict_get(current, part)]
    ELSE [kind |-> "return", value |-> None]

RECURSIVE Loop(_, _, _)
Loop(current, parts, i) ==
    IF i > Len(parts) THEN current
    ELSE LET step == LoopBody(current, parts[i])
         IN CASE step.kind = "next" -> Loop(step.value, parts, i + 1)
              [] step.kind = "return" -> step.value
              [] step.kind = "except" -> None      \* except Exception: return None

get_nested_value(obj, key_path) == Loop(obj, split(key_path), 1)

\* result[key] = value on a dict that keeps insertion order: a key already there
\* keeps its place and takes the new value
DictSet(d, k, x) ==
    IF \E i \in 1..Len(d) : d[i][1] = k
    THEN [i \in 1..Len(d) |-> IF d[i][1] = k THEN <<k, x>> ELSE d[i]]
    ELSE Append(d, <<k, x>>)

HasKey(d, k) == \E i \in 1..Len(d) : d[i][1] = k

Lookup(d, k) == d[CHOOSE i \in 1..Len(d) : d[i][1] = k][2]

MsisdnKey == <<"msisdn">>

RECURSIVE FillRow(_, _, _, _)
FillRow(result, json, ks, i) ==
    IF i > Len(ks) THEN result
    ELSE FillRow(DictSet(result, ks[i],
                         IF Truthy(json) THEN get_nested_value(json, ks[i]) ELSE None),
                 json, ks, i + 1)

extract_data(json, ks, id) == FillRow(<< <<MsisdnKey, Str(id)>> >>, json, ks, 1)

\* the documents, key paths and identifiers extract_data is applied to
LeafValues ==
    {Str(<<"1", "2", "3">>), Num(5), None, Obj1(<<"b">>, Num(5)), Arr(<<>>)}
Docs ==
    {Obj1(<<"accounts">>, Arr(<<Obj1(accountInternalId, x)>>)) : x \in LeafValues}
    \cup { Obj1(<<"a">>, Obj1(<<"b">>, Num(5))),
           Obj1(<<"a">>, None),
           Obj1(<<"accounts">>, Arr(<<>>)),
           Obj1(<<"accounts">>, Arr(<<Obj1(<<"x">>, Str(<<"1">>))>>)),
           Obj1(<<"accounts">>, Arr(<<Num(5)>>)),
           Obj1(<<"accounts">>,
                Arr(<<Obj1(<<"x">>, Num(5)), Obj1(accountInternalId, Str(<<"2">>))>>)),
           Arr(<<Obj1(accountInternalId, Str(<<"9">>))>>),
           Arr(<<>>),
           EmptyObj,
           Str(<<"s">>),
           Num(0),
           Doc_msisdn }
KeyPaths ==
    { MsisdnKey,
      <<"accounts", ".", "accountInternalId">>,
      <<"accounts", ".", "accountInternalId", ".", "b">>,
      <<"accounts", ".", "x">>,
      <<"accounts">>,
      accountInternalId,
      <<"a", ".", "b">>,
      <<"a", ".", "b", ".", "c">> }
KeyLists == SeqsUpTo(KeyPaths, MaxKeys)
ExtractIds == { <<"9">>, <<"1", "2">> }

Extract ==
    /\ epc = "ready"
    /\ row' = extract_data(json_data, keys, msisdn)
    /\ epc' = "done"
    /\ UNCHANGED <<json_data, keys, msisdn, urlVars, fetchVars, runVars>>

InitExtract ==
    /\ IdleUrl /\ IdleFetch /\ IdleRun
    /\ json_data \in Docs \cup {None}
    /\ keys \in KeyLists
    /\ msisdn \in ExtractIds
    /\ row = <<>>
    /\ epc = "ready"
NextExtract == Extract
SpecExtract == InitExtract /\ [][NextExtract]_vars

(***************************************************************************)
(* read_msisdns, the Writer and process_all_msisdns.                       *)
(***************************************************************************)
DotCsv == <<".", "c", "s", "v">>
DotXlsx == <<".", "x", "l", "s", "x">>
DotXls == <<".", "x", "l", "s">>

RECURSIVE SelectDigits(_)
\* [m for m in msisdns if m.isdigit()] after .astype(str).str.strip()
SelectDigits(cells) ==
    IF cells = <<>> THEN <<>>
    ELSE LET m == strip(Head(cells))
         IN (IF isdigit(m) THEN <<m>> ELSE <<>>) \o SelectDigits(Tail(cells))

\* a read_msisdns that returns the empty list instead of raising
read_msisdns_no_empty_check(in) ==
    IF in.path = <<>> \/ in.column = <<>> THEN Raise
    ELSE IF ~(\/ endswith(lower(in.path), DotCsv)
              \/ endswith(lower(in.path), DotXlsx)
              \/ endswith(lower(in.path), DotXls)) THEN Raise
    ELSE IF ~in.readable THEN Raise
    ELSE IF in.column \notin in.columns THEN Raise
    ELSE [raised |-> FALSE, value |-> SelectDigits(in.cells)]

\* in: the file path, the column asked for, whether pandas can load the file,
\* the loaded table's column names and the cells of the column asked for
read_msisdns(in) ==
    IF in.path = <<>> \/ in.column = <<>> THEN Raise
    ELSE IF ~(\/ endswith(lower(in.path), DotCsv)
              \/ endswith(lower(in.path), DotXlsx)
              \/ endswith(lower(in.path), DotXls)) THEN Raise
    ELSE IF ~in.readable THEN Raise                       \* pd.read_csv / read_excel raises
    ELSE IF in.column \notin in.columns THEN Raise
    ELSE LET valid_msisdns == SelectDigits(in.cells)
         IN IF valid_msisdns = <<>> THEN Raise
            ELSE [raised |-> FALSE, value |-> valid_msisdns]

\* "extracted_data_<timestamp>.csv": T abbreviates the stem
TimestampName == <<"T">> \o DotCsv

\* the path the Writer writes to
output_name(output_file) ==
    LET f == IF output_file = <<>> THEN TimestampName ELSE output_file
    IN IF endswith(lower(f), DotCsv) THEN f
       ELSE IF endswith(lower(f), DotXlsx) \/ endswith(lower(f), DotXls) THEN f
       ELSE f \o DotCsv

InputPaths ==
    { <<>>, <<"a", ".", "C", "S", "V">>, <<"a">> \o DotXlsx, <<"a">> \o DotXls,
      <<"a", ".", "t", "x", "t">> }
ColumnNames == { <<>>, <<"m">> }
Cells == { <<" ", "2">>, <<"a">>, <<"U+0663">> }
ReaderInputs ==
    [path : InputPaths, column : ColumnNames, readable : BOOLEAN,
     columns : {{<<"m">>}, {<<"x">>}}, cells : SeqsUpTo(Cells, MaxRows)]
OutputFiles == { <<>>, <<"o">> \o DotCsv, <<"o">> \o DotXlsx, <<"o">> }
RunKeyLists == SeqsUpTo({MsisdnKey, <<"accounts", ".", "accountInternalId">>}, MaxKeys)

\* msisdns = self.read_msisdns(input_file, msisdn_column)
Read ==
    /\ pc = "start"
    /\ \E in \in ReaderInputs :
          /\ reader_in' = in
          /\ LET r == read_msisdns(in)
             IN IF r.raised
                THEN pc' = "raised" /\ msisdns' = <<>>
                ELSE pc' = "loop" /\ msisdns' = r.value
    /\ UNCHANGED <<idx, results, failed, output, urlVars, fetchVars, extractVars>>

\* the answers drawn inside a run: one of each kind the adapter tells apart
RunAnswers ==
    {[kind |-> "ConnectionError"]}
    \cup {[kind |-> "resp", status |-> s, retry_after |-> FALSE, body |-> Malformed] :
            s \in {404, 503}}
    \cup {[kind |-> "resp", status |-> 200, retry_after |-> FALSE, body |-> b] :
            b \in ResponseBodies}
    \cup {[kind |-> "resp", status |-> 300, retry_after |-> FALSE, body |-> Doc_msisdn]}

\* json_data = self.make_request(msisdn), for the next identifier
RunFetch ==
    /\ pc = "loop"
    /\ idx < Len(msisdns)
    /\ MakeRequestCall(msisdns[idx + 1])
    /\ UNCHANGED <<urlVars, extractVars, runVars>>

RunAttempt ==
    /\ pc = "loop"
    /\ \E a \in RunAnswers : MakeRequestAttempt(a)
    /\ UNCHANGED <<urlVars, extractVars, runVars>>

\* results.append(self.extract_data(json_data, keys_to_extract, msisdn))
AppendRow ==
    /\ pc = "loop"
    /\ fpc = "returned"
    /\ results' = Append(results, extract_data(ret, keys, cur))
    /\ failed' = IF ret = None THEN failed \cup {idx + 1} ELSE failed
    /\ idx' = idx + 1
    /\ fpc' = "idle" /\ cur' = <<>> /\ total' = RetryTotal /\ attempts' = 0
    /\ onlyForce' = TRUE /\ retriedOther' = FALSE /\ retriedPlain' = FALSE
    /\ last' = NoAnswer /\ ret' = None
    /\ UNCHANGED <<netCalls, pc, reader_in, msisdns, output, urlVars, extractVars>>

\* an exception of make_request passes "except Exception as e: ... raise"
Propagate ==
    /\ pc = "loop"
    /\ fpc = "raised"
    /\ pc' = "raised"
    /\ UNCHANGED <<reader_in, msisdns, idx, results, failed, output,
                   urlVars, fetchVars, extractVars>>

\* pd.DataFrame(results) written to the output path; ok: the file system lets it
Write ==
    /\ pc = "loop"
    /\ fpc = "idle"
    /\ idx = Len(msisdns)
    /\ \E output_file \in OutputFiles, ok \in BOOLEAN :
          IF ok
          THEN /\ output' = [file |-> output_name(output_file), rows |-> results,
                             status |-> "written"]
               /\ pc' = "done"
          ELSE /\ output' = [file |-> output_name(output_file), rows |-> <<>>,
                             status |-> "failed"]
               /\ pc' = "raised"
    /\ UNCHANGED <<reader_in, msisdns, idx, results, failed, urlVars, fetchVars, extractVars>>

InitRun ==
    /\ IdleUrl /\ IdleFetch
    /\ json_data = None /\ msisdn = <<>> /\ row = <<>> /\ epc = "idle"
    /\ keys \in RunKeyLists
    /\ pc = "start" /\ reader_in = NoInput /\ msisdns = <<>> /\ idx = 0
    /\ results = <<>> /\ failed = {} /\ output = NoFile
NextRun == Read \/ RunFetch \/ RunAttempt \/ AppendRow \/ Propagate \/ Write
SpecRun == InitRun /\ [][NextRun]_vars

Init == InitRun
Next == NextRun
Spec == SpecRun

(***************************************************************************)
(* What the claims are stated with.                                        *)
(***************************************************************************)
DigitChars == AsciiDigits \cup ArabicDigits

\* an identifier that is empty or holds a non-digit character
InvalidId(m) == m = <<>> \/ \E i \in 1..Len(m) : m[i] \notin DigitChars

IsSchemeName(s) ==
    s # <<>> /\ isalpha(s[1]) /\ \A j \in 1..Len(s) : s[j] \in scheme_chars

HostChars == LowerLetters \cup UpperLetters \cup AsciiDigits \cup {".", "-"}

\* i is the place of the ':' of "scheme://" in u
SchemeAt(u, i) ==
    IsSchemeName(SubSeq(u, 1, i - 1)) /\ Slice(u, i, i + 2) = <<":", "/", "/">>

\* no scheme://host: no scheme followed by "://" and at least one character of a host
LacksSchemeOrHost(u) ==
    ~\E i \in 2..Len(u) :
        SchemeAt(u, i) /\ i + 3 <= Len(u) /\ u[i + 3] \notin {"/", "?", "#"}

\* scheme://host[...]: the host is a run of host characters that the end of the
\* string, '/', '?' or '#' ends
WellFormed(u) ==
    \E i \in 2..Len(u) :
        /\ SchemeAt(u, i)
        /\ i + 3 <= Len(u)
        /\ u[i + 3] \in HostChars
        /\ \A k \in (i + 3)..Len(u) :
              u[k] \notin HostChars =>
                 \E j \in (i + 3)..k : u[j] \in {"/", "?", "#"}

\* the walk of 4.3 through objects alone
RECURSIVE ObjWalk(_, _)
ObjWalk(node, parts) ==
    IF parts = <<>> THEN [ok |-> TRUE, node |-> node]
    ELSE IF node.t = "obj" /\ Head(parts) \in DOMAIN node.v
         THEN ObjWalk(node.v[Head(parts)], Tail(parts))
         ELSE [ok |-> FALSE]

\* what the accountInternalId segment resolves to on the array a
FirstAccountId(a) ==
    IF a = <<>> THEN None
    ELSE IF a[1].t # "obj" THEN None
    ELSE IF accountInternalId \notin DOMAIN a[1].v THEN None
    ELSE a[1].v[accountInternalId]

\* a walk that cannot be completed: a key missing from an object, an array met
\* with another segment than accountInternalId, a scalar with a segment left
RECURSIVE WalkBlocked(_, _)
WalkBlocked(node, parts) ==
    /\ parts # <<>>
    /\ CASE node.t = "obj" ->
              \/ Head(parts) \notin DOMAIN node.v
              \/ WalkBlocked(node.v[Head(parts)], Tail(parts))
         [] node.t = "arr" ->
              \/ Head(parts) # accountInternalId
              \/ WalkBlocked(FirstAccountId(node.v), Tail(parts))
         [] OTHER -> TRUE

K_accounts_id == <<"accounts", ".", "accountInternalId">>
K_a_b == <<"a", ".", "b">>
K_a_b_c == <<"a", ".", "b", ".", "c">>

\* the Reader's failure conditions
ReaderFails(in) ==
    \/ in.path = <<>>
    \/ in.column = <<>>
    \/ ~\E ext \in {DotCsv, DotXlsx, DotXls} : endswith(lower(in.path), ext)
    \/ ~in.readable
    \/ in.column \notin in.columns
    \/ \A i \in 1..Len(in.cells) : InvalidId(strip(in.cells[i]))

AtWriteStep == (pc = "loop" /\ fpc = "idle" /\ idx = Len(msisdns)) \/ pc = "done"

(***************************************************************************)
(* The claims.                                                             *)
(***************************************************************************)

\* C1: in every run that reaches the Write step the result collection holds one
\* row per identifier the Reader returned, row i with msisdn = id_i, whatever
\* fetches failed (a failed fetch gives a null-filled row at its place).
C1_OneRowPerIdentifier ==
    AtWriteStep =>
        /\ Len(results) = Len(msisdns)
        /\ \A i \in 1..Len(msisdns) :
              /\ HasKey(results[i], MsisdnKey)
              /\ Lookup(results[i], MsisdnKey) = Str(msisdns[i])
              /\ i \in failed =>
                    \A k \in 1..Len(keys) :
                        keys[k] # MsisdnKey => Lookup(results[i], keys[k]) = None

\* C2: make_request with an all-digit identifier never raises; it returns the
\* parsed JSON on a 2xx status with a well-formed body and None on every other
\* outcome.  Stated for the identifiers made of the digits 0-9 alone.
C2_AllErrorsAbsent ==
    (fpc \in {"returned", "raised"} /\ cur # <<>>
        /\ \A i \in 1..Len(cur) : cur[i] \in AsciiDigits) =>
        /\ fpc = "returned"
        /\ ret = IF /\ last.kind = "resp"
                    /\ 200 <= last.status /\ last.status < 300
                    /\ last.body # Malformed
                 THEN last.body ELSE None

\* C3: extract_data with an absent response and a non-empty list of key paths
\* returns a row with msisdn = id and every requested key path mapped to null.
C3_AbsentResponseRow ==
    (epc = "done" /\ json_data = None /\ keys # <<>>) =>
        /\ Lookup(row, MsisdnKey) = Str(msisdn)
        /\ \A i \in 1..Len(keys) : Lookup(row, keys[i]) = None

\* C4: when the walk of a key path reaches an array at a segment that is
\* literally accountInternalId, the segment resolves to that field of the
\* array's element 0, and to null when the array is empty or the element has no
\* such field; {"accounts":[{"accountInternalId":v}]} with
\* accounts.accountInternalId yields v for every v.
C4_AccountInternalIdOfFirstElement ==
    epc = "done" =>
        /\ \A i \in 1..Len(keys) :
              LET parts == split(keys[i])
              IN \A j \in 1..Len(parts) :
                    LET w == ObjWalk(json_data, SubSeq(parts, 1, j - 1))
                    IN (parts[j] = accountInternalId /\ w.ok /\ w.node.t = "arr") =>
                          LET rest == ObjWalk(FirstAccountId(w.node.v),
                                              SubSeq(parts, j + 1, Len(parts)))
                          IN Lookup(row, keys[i]) = IF rest.ok THEN rest.node ELSE None
        /\ \A x \in LeafValues :
              (/\ json_data = Obj1(<<"accounts">>, Arr(<<Obj1(accountInternalId, x)>>))
               /\ \E i \in 1..Len(keys) : keys[i] = K_accounts_id)
              => Lookup(row, K_accounts_id) = x

C4_Witness ==
    /\ epc = "done"
    /\ json_data = Obj1(<<"accounts">>,
                        Arr(<<Obj1(accountInternalId, Str(<<"1", "2", "3">>))>>))
    /\ keys = <<K_accounts_id>>
    /\ row = << <<MsisdnKey, Str(msisdn)>>, <<K_accounts_id, Str(<<"1", "2", "3">>)>> >>

\* C5: for every response, identifier and list of key paths the row has exactly
\* 1 + len(keyPaths) fields, in order: msisdn with the identifier as its value,
\* then one field per key path, in list order, under the path's literal name.
C5_RowShape ==
    epc = "done" =>
        /\ Len(row) = 1 + Len(keys)
        /\ row[1] = <<MsisdnKey, Str(msisdn)>>
        /\ \A i \in 1..Len(keys) : row[i + 1][1] = keys[i]

\* C6: a Reader or Writer failure ends the run with the error propagated; when
\* the Reader fails no HTTP request is issued, no row is made and no output is
\* written.
C6_FatalErrorsPropagate ==
    /\ (pc # "start" /\ ReaderFails(reader_in)) =>
          /\ pc = "raised"
          /\ netCalls = 0
          /\ fpc = "idle"
          /\ results = <<>>
          /\ output = NoFile
    /\ output.status = "failed" => pc = "raised"
    /\ pc = "raised" => output.status # "written"

C6_Witness ==
    /\ pc = "raised"
    /\ reader_in.path = <<"a">> \o DotXlsx
    /\ reader_in.column = <<"m">>
    /\ reader_in.readable
    /\ reader_in.columns = {<<"m">>}
    /\ reader_in.cells = << <<"a">>, <<"a">> >>
    /\ netCalls = 0
    /\ output = NoFile

\* C7: make_request with an identifier that is empty or holds a non-digit
\* character returns None without raising and without a network request, and
\* leaves the stored headers and base URL as they were.
C7_InvalidIdentifierRejected ==
    (fpc # "idle" /\ InvalidId(cur)) =>
        /\ fpc = "returned"
        /\ ret = None
        /\ attempts = 0
        /\ netCalls = 0
        /\ headers = DefaultHeaders
        /\ base_url = ConstructedUrl

C7_Witness ==
    /\ fpc = "returned"
    /\ cur = <<"1", "a">>
    /\ ret = None
    /\ netCalls = 0

\* C8 as stated: a URL that lacks a scheme or a host fails at construction,
\* before any request; every well-formed scheme://host[...] URL is accepted and
\* stored with its trailing '&' and '?' removed.
C8_AnySchemeAccepted ==
    cpc # "new" =>
        /\ LacksSchemeOrHost(url) => (cpc = "raised" /\ netCalls = 0)
        /\ WellFormed(url) =>
              (cpc = "constructed" /\ base_url = rstrip(url, {"&", "?"}))

\* C8, amended: a URL that lacks a scheme or a host fails at construction,
\* before any request; every well-formed URL that starts with http:// or
\* https:// is accepted and stored with its trailing '&' and '?' removed.
C8_HttpSchemesAccepted ==
    cpc # "new" =>
        /\ LacksSchemeOrHost(url) => (cpc = "raised" /\ netCalls = 0)
        /\ (WellFormed(url) /\ (startswith(url, HTTP) \/ startswith(url, HTTPS))) =>
              (cpc = "constructed" /\ base_url = rstrip(url, {"&", "?"}))

C8_Witness ==
    /\ cpc = "constructed"
    /\ url = HTTPS \o <<"a", ".", "b", "?", "&">>
    /\ base_url = HTTPS \o <<"a", ".", "b">>

\* C9 as stated: when every attempt of one call is answered with a status of
\* {500, 502, 503, 504} the client sends at most 3 attempts and returns None; a
\* response with any other status is never re-attempted.
C9_AtMostThreeAttempts ==
    /\ (attempts >= 1 /\ onlyForce) => attempts <= 3
    /\ (fpc = "returned" /\ attempts >= 1 /\ onlyForce) => ret = None
    /\ ~retriedOther

\* C9, amended: when every attempt of one call is answered with a status of
\* {500, 502, 503, 504} the client sends at most 4 attempts (the first and 3
\* retries) and returns None; a response with any other status is re-attempted
\* only when it is a 413 or 429 that carries a Retry-After header.
C9_AtMostFourAttempts ==
    /\ (attempts >= 1 /\ onlyForce) => attempts <= 4
    /\ (fpc = "returned" /\ attempts >= 1 /\ onlyForce) => ret = None
    /\ ~retriedPlain

C9_Witness ==
    /\ fpc = "returned"
    /\ onlyForce
    /\ attempts = 4
    /\ last.status = 502
    /\ ret = None

\* C10: with a present response a key path whose walk cannot be completed (a
\* key missing from an object, an array met with another segment than
\* accountInternalId, a scalar with a segment left) resolves to null, and the
\* other key paths of the row have the values they have when asked for alone.
C10_BlockedWalkYieldsNull ==
    (epc = "done" /\ json_data # None) =>
        \A i \in 1..Len(keys) :
            /\ HasKey(row, keys[i])
            /\ WalkBlocked(json_data, split(keys[i])) => Lookup(row, keys[i]) = None
            /\ Lookup(row, keys[i])
                  = Lookup(extract_data(json_data, <<keys[i]>>, msisdn), keys[i])

C10_Witness ==
    /\ epc = "done"
    /\ json_data = Obj1(<<"a">>, Obj1(<<"b">>, Num(5)))
    /\ keys = <<K_a_b_c, K_a_b>>
    /\ row = << <<MsisdnKey, Str(msisdn)>>, <<K_a_b_c, None>>, <<K_a_b, Num(5)>> >>

====
